---- MODULE Spec2Model ----
(***************************************************************************)
(* Model of src/ukkonen.py: the suffix tree construction of class Ukkonen  *)
(* (Node, RootNode, ImplicitNode) and the substring search on the tree.    *)
(*                                                                         *)
(* Python objects are kept in an arena: `nodes` is the sequence of all     *)
(* Node objects ever constructed, a node's identity is its index, index 1  *)
(* is the RootNode.  A reference to "a node" in the sense of BaseNode is a *)
(* record [kind, node, position]: kind "node" for a Node/RootNode, kind    *)
(* "implicit" for an ImplicitNode(node, position), kind "none" for None.   *)
(* String positions are the 0-based positions of the Python code; the      *)
(* symbol at Python position k is string[k + 1].                           *)
(***************************************************************************)
EXTENDS Integers, Sequences, FiniteSets, TLC

\* Bounds of the model.
MaxSize == 11        \* inputs: length + number of distinct symbols <= MaxSize
NumLetters == 3      \* size of the alphabet
MaxPat == 3          \* longest pattern drawn from the whole alphabet
MaxShort == 3        \* longest input string of ShortSearchSpec

Letters == 1..NumLetters

VARIABLES
    string,      \* the input string (Node.string, shared by all nodes)
    nodes,       \* arena of Node objects; nodes[1] is the RootNode
    current,     \* Ukkonen.__init__: current_node
    i,           \* Ukkonen.__init__: loop variable of the phases
    pc,          \* "add", "link", "done", "failed"
    op,          \* operation_type returned by the last add_edge (0: none yet)
    new_node,    \* new_node returned by the last add_edge
    error,       \* exception that ended construction ("none" if none)
    calls,       \* number of add_edge calls made so far
    pattern,     \* argument of the last search
    found,       \* result of the last search: "True", "False" ("none" before any search)
    probe        \* the last direct call of a node method on the finished tree

vars == <<string, nodes, current, i, pc, op, new_node, error, calls, pattern, found, probe>>

----------------------------------------------------------------------------
\* References (BaseNode values)

NoRef == [kind |-> "none", node |-> 0, position |-> 0]
Explicit(n) == [kind |-> "node", node |-> n, position |-> 0]
Implicit(n, p) == [kind |-> "implicit", node |-> n, position |-> p]

\* Python indexing of the string: string[k] with negative k counting from the end.
IndexOK(k) == k >= 0 - Len(string) /\ k < Len(string)
At(k) == IF k >= 0 THEN string[k + 1] ELSE string[Len(string) + k + 1]

\* Python slicing seq[a:b] (bounds clipped, negative bounds count from the end).
Norm(k, len) ==
    IF k < 0 THEN (IF k + len < 0 THEN 0 ELSE k + len)
    ELSE IF k > len THEN len ELSE k
PySlice(seq, a, b) ==
    LET lo == Norm(a, Len(seq))
        hi == Norm(b, Len(seq))
    IN  IF lo >= hi THEN << >> ELSE SubSeq(seq, lo + 1, hi)

\* Node.__init__: `edge_end or len(string)` (None and 0 both give len(string)).
NewNode(parent_node, edge_start, edge_end) ==
    [parent_node |-> parent_node,
     edge_start  |-> edge_start,
     edge_end    |-> IF edge_end = 0 THEN Len(string) ELSE edge_end,
     edges       |-> [l \in Letters |-> 0],
     suffix_link |-> NoRef,
     is_root     |-> FALSE]

\* RootNode.__init__
RootNode ==
    [parent_node |-> 0, edge_start |-> 0, edge_end |-> 0,
     edges |-> [l \in Letters |-> 0], suffix_link |-> NoRef, is_root |-> TRUE]

\* Node.length
Length(nd) == nd.edge_end - nd.edge_start

\* truth value of `self.edges` (a non-empty dict)
HasEdges(nd) == \E l \in Letters : nd.edges[l] # 0

----------------------------------------------------------------------------
\* trace_string

TraceOk(ref) == [err |-> "none", ref |-> ref]
TraceErr(e) == [err |-> e, ref |-> NoRef]

\* Node.trace_string(start, end); end = 0 stands for both None and 0.
\* depth counts the nested calls: each call descends one edge of the tree.
RECURSIVE NodeTraceString(_, _, _, _, _)
NodeTraceString(t, self, start, end0, depth) ==
    LET end == IF end0 = 0 THEN start + 1 ELSE end0
    IN  IF start = end THEN TraceOk(Explicit(self))
        ELSE IF ~IndexOK(start) THEN TraceErr("IndexError")
        ELSE LET letter == At(start)
                 edge == t[self].edges[letter]
             IN  IF edge = 0 THEN TraceErr("KeyError")
                 ELSE IF end - start >= Length(t[edge])
                 THEN IF depth >= Len(t) THEN TraceErr("RuntimeError")
                      ELSE NodeTraceString(t, edge, start + Length(t[edge]), end, depth + 1)
                 ELSE TraceOk(Implicit(edge, t[edge].edge_start + end - start))

\* ImplicitNode.trace_string(start, end)
ImplicitTraceString(t, node, position, start, end0) ==
    LET end == IF end0 = 0 THEN start + 1 ELSE end0
    IN  IF start - end < t[node].edge_end - position
        THEN TraceOk(Implicit(node, position + end - start))
        ELSE NodeTraceString(t, node, start + t[node].edge_end - position, end, 0)

\* BaseNode.trace_string, dispatched on the class of the receiver
TraceString(t, ref, start, end) ==
    IF ref.kind = "node" THEN NodeTraceString(t, ref.node, start, end, 0)
    ELSE ImplicitTraceString(t, ref.node, ref.position, start, end)

----------------------------------------------------------------------------
\* suffix_link

LinkOk(t, ref) == [err |-> "none", t |-> t, ref |-> ref]
LinkErr(t, e) == [err |-> e, t |-> t, ref |-> NoRef]

\* Node.suffix_link (property: _get_suffix_link with _calculate_suffix_link)
\* and RootNode.suffix_link.  The result carries the arena, because the
\* getter memoizes into _suffix_link, on self and on the ancestors it asks.
RECURSIVE NodeSuffixLink(_, _)
NodeSuffixLink(t, self) ==
    IF t[self].is_root THEN LinkOk(t, NoRef)
    ELSE IF t[self].suffix_link # NoRef THEN LinkOk(t, t[self].suffix_link)
    ELSE LET parent == t[self].parent_node
             p == NodeSuffixLink(t, parent)
         IN  IF p.err # "none" THEN p
             ELSE LET r == IF p.ref = NoRef
                           THEN NodeTraceString(p.t, parent, t[self].edge_start + 1,
                                                t[self].edge_end, 0)
                           ELSE TraceString(p.t, p.ref, t[self].edge_start,
                                            t[self].edge_end)
                  IN  IF r.err # "none" THEN LinkErr(p.t, r.err)
                      ELSE LinkOk([p.t EXCEPT ![self].suffix_link = r.ref], r.ref)

\* ImplicitNode.suffix_link (property, not memoized on the ImplicitNode)
ImplicitSuffixLink(t, node, position) ==
    LET parent == t[node].parent_node
        p == NodeSuffixLink(t, parent)
    IN  IF p.err # "none" THEN p
        ELSE IF p.ref = NoRef
        THEN IF ~t[parent].is_root THEN LinkErr(p.t, "AssertionError")
             ELSE LET r == NodeTraceString(p.t, parent, t[node].edge_start + 1, position, 0)
                  IN  IF r.err # "none" THEN LinkErr(p.t, r.err) ELSE LinkOk(p.t, r.ref)
        ELSE LET r == TraceString(p.t, p.ref, t[node].edge_start, position)
             IN  IF r.err # "none" THEN LinkErr(p.t, r.err) ELSE LinkOk(p.t, r.ref)

\* BaseNode.suffix_link, dispatched on the class of the receiver
SuffixLink(t, ref) ==
    IF ref.kind = "node" THEN NodeSuffixLink(t, ref.node)
    ELSE ImplicitSuffixLink(t, ref.node, ref.position)

----------------------------------------------------------------------------
\* add_edge

AddOk(t, o, ref) == [err |-> "none", t |-> t, op |-> o, ref |-> ref]
AddErr(t, e) == [err |-> e, t |-> t, op |-> 0, ref |-> NoRef]

\* Node.add_edge making the new leaf with a closed edge of one symbol
\* (Node(self.string, self, position, position + 1)).
NodeAddEdgeClosedLeaf(t, self, position) ==
    LET letter == At(position)
        leaf == Len(t) + 1
        type == IF t[self].edges[letter] # 0 THEN 3
                ELSE IF HasEdges(t[self]) \/ t[self].is_root THEN 2
                ELSE 1
        t2 == IF type = 2
              THEN [Append(t, NewNode(self, position, position + 1))
                       EXCEPT ![self].edges[letter] = leaf]
              ELSE t
        r == NodeTraceString(t2, self, position, 0, 0)
    IN  IF ~IndexOK(position) THEN AddErr(t, "IndexError")
        ELSE IF r.err # "none" THEN AddErr(t2, r.err)
        ELSE AddOk(t2, type, r.ref)

\* Node.add_edge(position)
NodeAddEdge(t, self, position) ==
    LET letter == At(position)
        leaf == Len(t) + 1
        type == IF t[self].edges[letter] # 0 THEN 3
                ELSE IF HasEdges(t[self]) \/ t[self].is_root THEN 2
                ELSE 1
        t2 == IF type = 2
              THEN [Append(t, NewNode(self, position, 0)) EXCEPT ![self].edges[letter] = leaf]
              ELSE t
        r == NodeTraceString(t2, self, position, 0, 0)
    IN  IF ~IndexOK(position) THEN AddErr(t, "IndexError")
        ELSE IF r.err # "none" THEN AddErr(t2, r.err)
        ELSE AddOk(t2, type, r.ref)

\* SplitEdge with the new internal node made without its edge_end argument
\* (Node(string, predecessor, ancestor.edge_start)): its edge runs to the end
\* of the string.
SplitEdgeMiddleToEnd(t, node, pos, position) ==
    LET letter == At(position)
        next_letter == At(pos)
        predecessor == t[node].parent_node
        middle_node == Len(t) + 1
        leaf == Len(t) + 2
        middle == NewNode(predecessor, t[node].edge_start, 0)
        t1 == Append(t, middle)
        t2 == [t1 EXCEPT ![predecessor].edges[At(middle.edge_start)] = middle_node]
        t3 == [t2 EXCEPT ![node].edge_start = pos,
                         ![node].parent_node = middle_node,
                         ![middle_node].edges[next_letter] = node]
        t4 == [Append(t3, NewNode(middle_node, position, 0))
                  EXCEPT ![middle_node].edges[letter] = leaf]
        r == NodeTraceString(t4, middle_node, position, 0, 0)
    IN  IF ~IndexOK(middle.edge_start) THEN AddErr(t1, "IndexError")
        ELSE IF r.err # "none" THEN AddErr(t4, r.err)
        ELSE AddOk(t4, 2, r.ref)

\* SplitEdge without `ancestor.parent_node = middle_node`: the old node keeps
\* its old parent reference.
SplitEdgeNoReparent(t, node, pos, position) ==
    LET letter == At(position)
        next_letter == At(pos)
        predecessor == t[node].parent_node
        middle_node == Len(t) + 1
        leaf == Len(t) + 2
        middle == NewNode(predecessor, t[node].edge_start, pos)
        t1 == Append(t, middle)
        t2 == [t1 EXCEPT ![predecessor].edges[At(middle.edge_start)] = middle_node]
        t3 == [t2 EXCEPT ![node].edge_start = pos,
                         ![middle_node].edges[next_letter] = node]
        t4 == [Append(t3, NewNode(middle_node, position, 0))
                  EXCEPT ![middle_node].edges[letter] = leaf]
        r == NodeTraceString(t4, middle_node, position, 0, 0)
    IN  IF ~IndexOK(middle.edge_start) THEN AddErr(t1, "IndexError")
        ELSE IF r.err # "none" THEN AddErr(t4, r.err)
        ELSE AddOk(t4, 2, r.ref)

\* SplitEdge without `ancestor.edge_start = self.position`: the old node keeps
\* its whole edge label below the new internal node.
SplitEdgeKeepStart(t, node, pos, position) ==
    LET letter == At(position)
        next_letter == At(pos)
        predecessor == t[node].parent_node
        middle_node == Len(t) + 1
        leaf == Len(t) + 2
        middle == NewNode(predecessor, t[node].edge_start, pos)
        t1 == Append(t, middle)
        t2 == [t1 EXCEPT ![predecessor].edges[At(middle.edge_start)] = middle_node]
        t3 == [t2 EXCEPT ![node].parent_node = middle_node,
                         ![middle_node].edges[next_letter] = node]
        t4 == [Append(t3, NewNode(middle_node, position, 0))
                  EXCEPT ![middle_node].edges[letter] = leaf]
        r == NodeTraceString(t4, middle_node, position, 0, 0)
    IN  IF ~IndexOK(middle.edge_start) THEN AddErr(t1, "IndexError")
        ELSE IF r.err # "none" THEN AddErr(t4, r.err)
        ELSE AddOk(t4, 2, r.ref)

\* ImplicitNode.add_edge(position): the split of an edge (the else branch)
SplitEdge(t, node, pos, position) ==
    LET letter == At(position)
        next_letter == At(pos)
        predecessor == t[node].parent_node
        middle_node == Len(t) + 1
        leaf == Len(t) + 2
        middle == NewNode(predecessor, t[node].edge_start, pos)
        t1 == Append(t, middle)
        t2 == [t1 EXCEPT ![predecessor].edges[At(middle.edge_start)] = middle_node]
        t3 == [t2 EXCEPT ![node].edge_start = pos,
                         ![node].parent_node = middle_node,
                         ![middle_node].edges[next_letter] = node]
        t4 == [Append(t3, NewNode(middle_node, position, 0))
                  EXCEPT ![middle_node].edges[letter] = leaf]
        r == NodeTraceString(t4, middle_node, position, 0, 0)
    IN  IF ~IndexOK(middle.edge_start) THEN AddErr(t1, "IndexError")
        ELSE IF r.err # "none" THEN AddErr(t4, r.err)
        ELSE AddOk(t4, 2, r.ref)

\* ImplicitNode.add_edge that extends the leaf by hand on rule 1, writing the
\* end of the processed prefix into the edge_end of its node.
ImplicitAddEdgeExtendingLeaf(t, node, pos, position) ==
    IF ~IndexOK(position) \/ ~IndexOK(pos) THEN AddErr(t, "IndexError")
    ELSE IF At(position) = At(pos)
    THEN LET type == IF HasEdges(t[node]) \/ pos < position THEN 3 ELSE 1
             t1 == IF type = 1 THEN [t EXCEPT ![node].edge_end = position + 1] ELSE t
         IN  IF t[node].edge_end - pos = 1
             THEN AddOk(t1, type, Explicit(node))
             ELSE AddOk(t1, type, Implicit(node, pos + 1))
    ELSE SplitEdge(t, node, pos, position)

\* ImplicitNode.add_edge(position)
ImplicitAddEdge(t, node, pos, position) ==
    IF ~IndexOK(position) \/ ~IndexOK(pos) THEN AddErr(t, "IndexError")
    ELSE IF At(position) = At(pos)
    THEN LET type == IF HasEdges(t[node]) \/ pos < position THEN 3 ELSE 1
         IN  IF t[node].edge_end - pos = 1
             THEN AddOk(t, type, Explicit(node))
             ELSE AddOk(t, type, Implicit(node, pos + 1))
    ELSE SplitEdge(t, node, pos, position)

\* BaseNode.add_edge, dispatched on the class of the receiver
AddEdgeOp(t, ref, position) ==
    IF ref.kind = "node" THEN NodeAddEdge(t, ref.node, position)
    ELSE ImplicitAddEdge(t, ref.node, ref.position, position)

\* current_node.is_root
IsRoot(t, ref) == ref.kind = "node" /\ t[ref.node].is_root

----------------------------------------------------------------------------
\* search

\* Node.search_string with the test of the empty pattern answering for leaves
\* only (`return not self.edges` in place of `return True`).
RECURSIVE SearchStringLeafOnly(_, _, _)
SearchStringLeafOnly(t, self, pat) ==
    IF pat = << >> THEN ~HasEdges(t[self])
    ELSE LET letter == pat[1]
             edge == t[self].edges[letter]
         IN  IF edge = 0 THEN FALSE
             ELSE LET len == Length(t[edge])
                      pattern_chunk == PySlice(pat, 0, len)
                      edge_chunk == PySlice(PySlice(string, t[edge].edge_start, t[edge].edge_end),
                                            0, Len(pat))
                  IN  IF pattern_chunk = edge_chunk
                      THEN IF Len(pat) >= len
                           THEN SearchStringLeafOnly(t, edge, PySlice(pat, len, Len(pat)))
                           ELSE TRUE
                      ELSE FALSE

\* Node.search_string(pattern)
RECURSIVE SearchString(_, _, _)
SearchString(t, self, pat) ==
    IF pat = << >> THEN TRUE
    ELSE LET letter == pat[1]
             edge == t[self].edges[letter]
         IN  IF edge = 0 THEN FALSE
             ELSE LET len == Length(t[edge])
                      pattern_chunk == PySlice(pat, 0, len)
                      edge_chunk == PySlice(PySlice(string, t[edge].edge_start, t[edge].edge_end),
                                            0, Len(pat))
                  IN  IF pattern_chunk = edge_chunk
                      THEN IF Len(pat) >= len
                           THEN SearchString(t, edge, PySlice(pat, len, Len(pat)))
                           ELSE TRUE
                      ELSE FALSE

----------------------------------------------------------------------------
\* Inputs

\* A string is taken up to renaming of its symbols (the code only compares
\* symbols for equality): the symbols of an input appear in the order 1, 2, ...
FirstUseOrder(s) ==
    \A k \in 1..Len(s) : \A l \in 1..(s[k] - 1) : \E j \in 1..(k - 1) : s[j] = l

\* The inputs: the strings of n symbols over at most MaxSize - n symbols.
Min(a, b) == IF a < b THEN a ELSE b
Inputs ==
    UNION { { s \in [1..n -> 1..Min(NumLetters, MaxSize - n)] : FirstUseOrder(s) } :
            n \in 0..MaxSize }

\* Patterns searched for in the tree of `string`: every substring string[a:b],
\* the string with one more symbol, and every string of at most MaxPat symbols.
Substrings == { PySlice(string, a, b) : a \in 0..Len(string), b \in 0..Len(string) }
Patterns ==
    Substrings
    \cup { Append(string, l) : l \in Letters }
    \cup UNION { [1..n -> Letters] : n \in 0..MaxPat }

\* The record of a direct call: the method, its receiver and arguments, the
\* exception or the returned operation_type and reference.
NoProbe ==
    [call |-> "none", ref |-> NoRef, start |-> 0, end |-> 0,
     err |-> "none", op |-> 0, result |-> NoRef]

----------------------------------------------------------------------------
\* Ukkonen.__init__ and Ukkonen.search

Init ==
    /\ string \in Inputs
    /\ nodes = << RootNode >>
    /\ current = Explicit(1)
    /\ i = 0
    /\ pc = "add"
    /\ op = 0
    /\ new_node = NoRef
    /\ error = "none"
    /\ calls = 0
    /\ pattern = << >>
    /\ found = "none"
    /\ probe = NoProbe

\* The same, for the inputs of at most MaxShort symbols.
ShortInit == Init /\ Len(string) <= MaxShort

\* The exception of a failed call leaves __init__: no tree is returned.
Raise(t, e) ==
    /\ pc' = "failed"
    /\ error' = e
    /\ nodes' = t
    /\ UNCHANGED <<string, current, i, op, new_node, pattern, found, probe>>

\* AddEdge with the loop over the positions running one position too far
\* (range(len(string) + 1)).
AddEdgeOnePastEnd ==
    /\ pc = "add"
    /\ i <= Len(string)
    /\ calls' = calls + 1
    /\ LET r == AddEdgeOp(nodes, current, i)
       IN  IF r.err # "none" THEN Raise(r.t, r.err)
           ELSE /\ nodes' = r.t
                /\ op' = r.op
                /\ new_node' = r.ref
                /\ IF r.op = 3 \/ IsRoot(nodes, current)
                   THEN /\ current' = r.ref
                        /\ i' = i + 1
                        /\ pc' = "add"
                   ELSE /\ pc' = "link"
                        /\ UNCHANGED <<current, i>>
                /\ UNCHANGED <<string, error, pattern, found, probe>>

\* One pass of the body of `while True`, up to the test of line 241:
\* operation_type, new_node = current_node.add_edge(i), then either the
\* break (current_node = new_node, next i) or on to line 245.
AddEdge ==
    /\ pc = "add"
    /\ i < Len(string)
    /\ calls' = calls + 1
    /\ LET r == AddEdgeOp(nodes, current, i)
       IN  IF r.err # "none" THEN Raise(r.t, r.err)
           ELSE /\ nodes' = r.t
                /\ op' = r.op
                /\ new_node' = r.ref
                /\ IF r.op = 3 \/ IsRoot(nodes, current)
                   THEN /\ current' = r.ref
                        /\ i' = i + 1
                        /\ pc' = "add"
                   ELSE /\ pc' = "link"
                        /\ UNCHANGED <<current, i>>
                /\ UNCHANGED <<string, error, pattern, found, probe>>

\* FollowSuffixLink taking the suffix link of the reference add_edge returned
\* (current_node = new_node.suffix_link).
FollowSuffixLinkOfNewNode ==
    /\ pc = "link"
    /\ LET r == SuffixLink(nodes, new_node)
       IN  IF r.err # "none" THEN Raise(r.t, r.err) /\ UNCHANGED calls
           ELSE /\ nodes' = r.t
                /\ current' = r.ref
                /\ pc' = "add"
                /\ UNCHANGED <<string, i, op, new_node, error, calls, pattern, found, probe>>

\* Line 245: current_node = current_node.suffix_link
FollowSuffixLink ==
    /\ pc = "link"
    /\ LET r == SuffixLink(nodes, current)
       IN  IF r.err # "none" THEN Raise(r.t, r.err) /\ UNCHANGED calls
           ELSE /\ nodes' = r.t
                /\ current' = r.ref
                /\ pc' = "add"
                /\ UNCHANGED <<string, i, op, new_node, error, calls, pattern, found, probe>>

\* Line 247: the loop over the positions is exhausted, self.tree = root_node
Finish ==
    /\ pc = "add"
    /\ i = Len(string)
    /\ pc' = "done"
    /\ UNCHANGED <<string, nodes, current, i, op, new_node, error, calls, pattern, found, probe>>

\* Search that also reads the suffix_link property of the child it enters
\* first, which memoizes the link on that child.
SearchMemoizing ==
    /\ pc = "done"
    /\ found = "none"
    /\ \E p \in Patterns :
          /\ pattern' = p
          /\ found' = IF SearchString(nodes, 1, p) THEN "True" ELSE "False"
          /\ nodes' = IF p # << >> /\ nodes[1].edges[p[1]] # 0
                      THEN NodeSuffixLink(nodes, nodes[1].edges[p[1]]).t
                      ELSE nodes
    /\ UNCHANGED <<string, current, i, pc, op, new_node, error, calls, probe>>

\* Ukkonen.search(pattern), the first search on the finished tree
Search ==
    /\ pc = "done"
    /\ found = "none"
    /\ \E p \in Patterns :
          /\ pattern' = p
          /\ found' = IF SearchString(nodes, 1, p) THEN "True" ELSE "False"
    /\ UNCHANGED <<string, nodes, current, i, pc, op, new_node, error, calls, probe>>

\* Ukkonen.search(pattern), a search on a tree that has been searched before
SearchAgain ==
    /\ pc = "done"
    /\ found # "none"
    /\ \E p \in Patterns :
          /\ pattern' = p
          /\ found' = IF SearchString(nodes, 1, p) THEN "True" ELSE "False"
    /\ UNCHANGED <<string, nodes, current, i, pc, op, new_node, error, calls, probe>>

\* Construction alone.
Next == AddEdge \/ FollowSuffixLink \/ Finish

Spec == Init /\ [][Next]_vars

\* Construction followed by one search on the fresh tree.
SearchNext == AddEdge \/ FollowSuffixLink \/ Finish \/ Search

SearchSpec == Init /\ [][SearchNext]_vars

\* Construction, for the short inputs, followed by any number of searches.
ShortSearchNext == AddEdge \/ FollowSuffixLink \/ Finish \/ Search \/ SearchAgain

ShortSearchSpec == ShortInit /\ [][ShortSearchNext]_vars

----------------------------------------------------------------------------
\* The tree as a whole

\* The edge label of a node: self.string[self.edge_start:self.edge_end]
Label(t, n) == PySlice(string, t[n].edge_start, t[n].edge_end)

\* The children of a node: self.edges.itervalues()
Children(t, n) == { t[n].edges[l] : l \in Letters } \ {0}

\* The nodes reached from the root along the edges (the walk of serialize)
RECURSIVE Reach(_, _, _)
Reach(t, frontier, seen) ==
    IF frontier = {} THEN seen
    ELSE LET next == (UNION { Children(t, n) : n \in frontier }) \ seen
         IN  Reach(t, next, seen \cup next)
TreeNodes(t) == Reach(t, {1}, {1})

\* The string spelled from the root to a node, along the parent references
\* (Node.__str__ writes the same chain), and to an implicit position.
RECURSIVE PathOfNode(_, _)
PathOfNode(t, n) ==
    IF t[n].is_root THEN << >>
    ELSE PathOfNode(t, t[n].parent_node) \o Label(t, n)
PathOf(t, ref) ==
    IF ref.kind = "node" THEN PathOfNode(t, ref.node)
    ELSE PathOfNode(t, t[ref.node].parent_node)
            \o PySlice(string, t[ref.node].edge_start, ref.position)

----------------------------------------------------------------------------
\* The methods of BaseNode called directly on the nodes of a finished tree

\* The values a BaseNode can take on a tree: its Node objects and, by the
\* docstring of ImplicitNode, the positions strictly inside an edge.
Locations(t) ==
    { Explicit(n) : n \in TreeNodes(t) }
    \cup UNION { { Implicit(n, p) : p \in (t[n].edge_start + 1)..(t[n].edge_end - 1) } :
                 n \in TreeNodes(t) \ {1} }

\* x.trace_string(start, end) for a node x of the finished tree
CallTraceString ==
    /\ pc = "done"
    /\ probe.call = "none"
    /\ \E x \in Locations(nodes), start \in 0..Len(string), end \in 1..Len(string) :
          /\ start <= end
          /\ LET r == TraceString(nodes, x, start, end)
             IN  probe' = [call |-> "trace_string", ref |-> x, start |-> start, end |-> end,
                           err |-> r.err, op |-> 0, result |-> r.ref]
    /\ UNCHANGED <<string, nodes, current, i, pc, op, new_node, error, calls, pattern, found>>

\* x.add_edge(position) for a node x of the finished tree
CallAddEdge ==
    /\ pc = "done"
    /\ probe.call = "none"
    /\ \E x \in Locations(nodes), position \in 0..(Len(string) - 1) :
          LET r == AddEdgeOp(nodes, x, position)
          IN  /\ nodes' = r.t
              /\ probe' = [call |-> "add_edge", ref |-> x, start |-> position, end |-> 0,
                            err |-> r.err, op |-> r.op, result |-> r.ref]
    /\ UNCHANGED <<string, current, i, pc, op, new_node, error, calls, pattern, found>>

\* Construction, for the short inputs, followed by one direct call.
ProbeNext == AddEdge \/ FollowSuffixLink \/ Finish \/ CallTraceString \/ CallAddEdge

ProbeSpec == ShortInit /\ [][ProbeNext]_vars

----------------------------------------------------------------------------
\* Properties

\* C1: after Ukkonen(s) has been built, search(s[a:b]) returns True for every
\* contiguous substring s[a:b] of the indexed string.
C1_SubstringsFound ==
    (pc = "done" /\ found # "none" /\ pattern \in Substrings) => found = "True"

\* C2: after Ukkonen(s) has been built, search(p) returns False for every
\* pattern p that is not a contiguous substring of s.
C2_OthersNotFound ==
    (pc = "done" /\ found # "none" /\ pattern \notin Substrings) => found = "False"

\* C3: construction completes for every input string: no add_edge,
\* trace_string or suffix_link evaluation during construction fails.
C3_ConstructionNeverFails == pc # "failed" /\ error = "none"

\* C4: building from the empty string makes no add_edge call, raises no
\* error and yields the root alone, without children; on that tree search
\* returns False for every non-empty pattern.
C4_EmptyString ==
    string = << >> =>
        /\ calls = 0
        /\ i = 0
        /\ pc # "failed"
        /\ nodes = << RootNode >>
        /\ ~HasEdges(nodes[1])
        /\ (found # "none" /\ pattern # << >>) => found = "False"

C4_Witness ==
    string = << >> /\ pc = "done" /\ found = "False" /\ pattern # << >>

\* C5: search of the empty pattern returns True on every finished tree,
\* the tree of the empty string included.
C5_EmptyPatternFound ==
    (pc = "done" /\ found # "none" /\ pattern = << >>) => found = "True"

C5_Witness ==
    /\ pc = "done" /\ found = "True" /\ pattern = << >>
    /\ Len(string) = MaxShort /\ Len(nodes) > 3

\* C6: sibling uniqueness: during construction and in the final tree no
\* explicit node has two distinct children whose edge labels begin with the
\* same symbol.
C6_SiblingUniqueness ==
    \A n \in 1..Len(nodes) : \A c1, c2 \in Children(nodes, n) :
        c1 # c2 =>
            ~ /\ Label(nodes, c1) # << >>
              /\ Label(nodes, c2) # << >>
              /\ Label(nodes, c1)[1] = Label(nodes, c2)[1]

C6_Witness ==
    /\ pc = "done"
    /\ \E n \in 2..Len(nodes) : Cardinality(Children(nodes, n)) >= 3
    /\ Cardinality(Children(nodes, 1)) >= 3

\* C7: node-count bound: for an input of n >= 2 symbols the finished tree has
\* at most 2n - 1 explicit non-root nodes reachable from the root.
C7_NodeCountBound ==
    (pc = "done" /\ Len(string) >= 2) =>
        Cardinality(TreeNodes(nodes) \ {1}) <= 2 * Len(string) - 1

\* C8: search is read-only: a search on a finished tree changes no node
\* (children, edge range, parent, memoized suffix link) nor the string, and
\* so its result is that of the same search on the tree as it was built.
C8_SearchReadOnly ==
    [][pc = "done" =>
          /\ nodes' = nodes
          /\ string' = string
          /\ pc' = "done"
          /\ found' = IF SearchString(nodes, 1, pattern') THEN "True" ELSE "False"
          /\ (found # "none" /\ pattern' = pattern) => found' = found]_vars

C8_Witness ==
    /\ pc = "done" /\ found = "True" /\ Len(pattern) >= 2
    /\ Len(nodes) >= 5
    /\ \E n \in 1..Len(nodes) : nodes[n].suffix_link # NoRef

\* C9: suffix-link correctness: when line 245 evaluates suffix_link on a
\* reference point whose path from the root spells a non-empty string X, the
\* result is the location whose path from the root spells X without its
\* first symbol.
C9_SuffixLinkStripsFirstSymbol ==
    [][(pc = "link" /\ pc' = "add" /\ PathOf(nodes, current) # << >>) =>
          PathOf(nodes', current') = Tail(PathOf(nodes, current))]_vars

\* C10: every memoized suffix link (every non-None Node._suffix_link) is an
\* explicit node, never an implicit reference.
C10_MemoizedLinksExplicit ==
    \A n \in 1..Len(nodes) : nodes[n].suffix_link.kind # "implicit"

\* The tree has a location whose path from the root spells path(x) followed by w.
PathExists(t, x, w) == \E l \in Locations(t) : PathOf(t, l) = PathOf(t, x) \o w

\* C11: tracer correctness: when the path spelling string[start:end] exists
\* below the reference point X, X.trace_string(start, end) returns without
\* error the location whose path from the root spells path(X) followed by
\* string[start:end]: a node, or a position strictly inside an edge.
C11_TracerCorrect ==
    (/\ probe.call = "trace_string"
     /\ PathExists(nodes, probe.ref, PySlice(string, probe.start, probe.end)))
    => /\ probe.err = "none"
       /\ probe.result \in Locations(nodes)
       /\ PathOf(nodes, probe.result)
             = PathOf(nodes, probe.ref) \o PySlice(string, probe.start, probe.end)

\* An implicit reference lies strictly inside the edge of its node.
Proper(t, ref) ==
    ref.kind = "implicit" =>
        (t[ref.node].edge_start < ref.position /\ ref.position < t[ref.node].edge_end)

\* C12: every implicit reference in use during construction lies strictly
\* inside its edge (node.edge_start < position < node.edge_end): the current
\* reference point when add_edge or suffix_link is called on it, the
\* reference the last add_edge returned, and every memoized suffix link.
C12_ImplicitStrictlyInside ==
    pc \in {"add", "link"} =>
        /\ Proper(nodes, current)
        /\ Proper(nodes, new_node)
        /\ \A n \in 1..Len(nodes) : Proper(nodes, nodes[n].suffix_link)

\* C13: in every state of construction and in the final tree every node but
\* the root has a non-empty edge label: edge_start < edge_end.
C13_NonEmptyEdgeLabels ==
    \A n \in 2..Len(nodes) : nodes[n].edge_start < nodes[n].edge_end

\* add_edge(i) is about to be called on an implicit reference (node N, offset p)
\* with string[p] # string[i]: the call splits the edge of N.
SplitCall ==
    /\ pc = "add"
    /\ i < Len(string)
    /\ current.kind = "implicit"
    /\ IndexOK(current.position)
    /\ At(current.position) # At(i)

\* The effect of the split of the edge of N at offset p on the nodes, with
\* M = middle_node and L = the new leaf, up to the edge end of M: M has the
\* old start and the old parent of N, M replaces N in that parent, N starts at
\* p below M, M has the two children N and L, L is a childless leaf starting
\* at i, and no other node changes.
SplitEffect(N, p, M, L) ==
    LET P == nodes[N].parent_node
    IN  /\ pc' # "failed"
        /\ op' = 2
        /\ Len(nodes') = Len(nodes) + 2
        /\ nodes'[M].edge_start = nodes[N].edge_start
        /\ nodes'[M].parent_node = P
        /\ nodes[P].edges[At(nodes[N].edge_start)] = N
        /\ nodes'[P] = [nodes[P] EXCEPT !.edges[At(nodes[N].edge_start)] = M]
        /\ nodes'[N] = [nodes[N] EXCEPT !.edge_start = p, !.parent_node = M]
        /\ nodes'[M].edges = [l \in Letters |-> IF l = At(p) THEN N
                                                ELSE IF l = At(i) THEN L ELSE 0]
        /\ nodes'[L].edge_start = i
        /\ nodes'[L].parent_node = M
        /\ ~HasEdges(nodes'[L])
        /\ \A n \in 1..Len(nodes) : n \notin {N, P} => nodes'[n] = nodes[n]

\* C14 as stated: the split of the edge of N at offset p makes a new internal
\* node M with edge range [old N.edge_start, p) and the old parent of N, M
\* replaces N in that parent's children, N gets the range [p, old N.edge_end)
\* and parent M, M has exactly the children N and a new childless leaf starting
\* at position, every other node is unchanged, and the result is (rule 2,
\* that new leaf).
C14_EdgeSplit ==
    [][SplitCall =>
          LET M == Len(nodes) + 1
              L == Len(nodes) + 2
          IN  /\ SplitEffect(current.node, current.position, M, L)
              /\ nodes'[M].edge_end = current.position
              /\ new_node' = Explicit(L)]_vars

\* C14, amended: the same effect on the tree, where the edge end of M is p
\* except that it is len(string) when p = 0, and the result is (rule 2, the
\* location one symbol down the edge of the new leaf): the new leaf itself
\* when position is the last position of the string, otherwise the implicit
\* reference (new leaf, position + 1).
C14_EdgeSplitAmended ==
    [][SplitCall =>
          LET M == Len(nodes) + 1
              L == Len(nodes) + 2
          IN  /\ SplitEffect(current.node, current.position, M, L)
              /\ nodes'[M].edge_end = IF current.position = 0 THEN Len(string)
                                      ELSE current.position
              /\ new_node' = IF i = Len(string) - 1 THEN Explicit(L)
                             ELSE Implicit(L, i + 1)]_vars

\* A split has just been made whose result is an implicit reference.
C14_Witness ==
    /\ pc = "link"
    /\ op = 2
    /\ current.kind = "implicit"
    /\ new_node.kind = "implicit"
    /\ nodes[new_node.node].parent_node = Len(nodes) - 1
    /\ nodes[current.node].parent_node = Len(nodes) - 1

\* C15: rule 1 on an explicit node: add_edge(position) called on a non-root
\* explicit node without children returns (rule 1, that same node), without
\* failing and without changing the tree.
C15_RuleOneOnExplicitNode ==
    [][(/\ probe.call = "none"
        /\ probe'.call = "add_edge"
        /\ probe'.ref.kind = "node"
        /\ ~nodes[probe'.ref.node].is_root
        /\ ~HasEdges(nodes[probe'.ref.node]))
       => /\ probe'.err = "none"
          /\ probe'.op = 1
          /\ probe'.result = probe'.ref
          /\ nodes' = nodes]_vars

\* C16: phase control: the phases run over the positions in order, one each;
\* every add_edge of phase i is called with position i on the current
\* reference point; after a call that returns rule 3 or was made on the root
\* the phase ends and the returned reference is the reference point of phase
\* i + 1; after any other call the phase goes on, and the next call is made
\* on the suffix link of the reference point of the last one.
C16_PhaseControl ==
    [][/\ i' \in {i, i + 1}
       /\ (pc = "add" /\ i < Len(string) /\ pc' # "failed") =>
             LET r == AddEdgeOp(nodes, current, i)
             IN  /\ calls' = calls + 1
                 /\ op' = r.op
                 /\ new_node' = r.ref
                 /\ IF r.op = 3 \/ IsRoot(nodes, current)
                    THEN pc' = "add" /\ i' = i + 1 /\ current' = r.ref
                    ELSE pc' = "link" /\ i' = i /\ current' = current
       /\ (pc = "link" /\ pc' # "failed") =>
             /\ pc' = "add"
             /\ i' = i
             /\ calls' = calls
             /\ current' = SuffixLink(nodes, current).ref
       /\ (pc = "add" /\ i = Len(string)) => (pc' = "done" /\ calls' = calls)]_vars

\* The last phase ended with rule 3 on an implicit reference point, after
\* phases in which suffix links were followed.
C16_Witness ==
    /\ pc = "add"
    /\ i = Len(string)
    /\ op = 3
    /\ current = new_node
    /\ current.kind = "implicit"
    /\ calls > i + 2

\* C17: online invariant: once phase i has completed, every suffix
\* string[j:i+1] (0 <= j <= i) of the processed prefix is spelled by a path
\* from the root: search_string from the root finds it in the tree as it is
\* at the end of the phase.
C17_OnlineInvariant ==
    [][(pc = "add" /\ i' = i + 1) =>
          \A j \in 0..i : SearchString(nodes', 1, PySlice(string, j, i + 1))]_vars

\* C18: frame of add_edge: a call whose result is rule 1 or rule 3 changes no
\* node and creates none; a rule-2 call on an explicit node creates one node,
\* a childless leaf whose edge starts at position, and changes only the
\* children of the receiver, by the entry for string[position] that holds the
\* new leaf.
C18_AddEdgeFrame ==
    [][(pc = "add" /\ i < Len(string) /\ pc' # "failed") =>
          /\ op' \in {1, 3} => nodes' = nodes
          /\ (op' = 2 /\ current.kind = "node") =>
                LET self == current.node
                    leaf == Len(nodes) + 1
                IN  /\ Len(nodes') = Len(nodes) + 1
                    /\ nodes[self].edges[At(i)] = 0
                    /\ nodes'[self] = [nodes[self] EXCEPT !.edges[At(i)] = leaf]
                    /\ nodes'[leaf].edge_start = i
                    /\ nodes'[leaf].parent_node = self
                    /\ ~HasEdges(nodes'[leaf])
                    /\ \A n \in 1..Len(nodes) : n # self => nodes'[n] = nodes[n]]_vars

\* A rule-2 call has just added a leaf to an explicit node that is not the
\* root.
C18_Witness ==
    /\ pc = "link"
    /\ op = 2
    /\ current.kind = "node"
    /\ ~nodes[current.node].is_root
    /\ nodes[Len(nodes)].parent_node = current.node
    /\ ~HasEdges(nodes[Len(nodes)])

\* The leaves of the tree: the nodes below the root that have no children.
Leaves(t) == { n \in TreeNodes(t) \ {1} : ~HasEdges(t[n]) }

\* C19 as stated: while phase i is being processed every leaf's edge end
\* equals i + 1, so no edge label covers a position greater than i.
C19_OpenLeafEnds ==
    (pc \in {"add", "link"} /\ i < Len(string)) =>
        \A n \in Leaves(nodes) : nodes[n].edge_end = i + 1

\* C19, amended: during construction and in the final tree every leaf's edge
\* end equals len(string), from the creation of the leaf on.
C19_LeafEndsAtStringEnd ==
    \A n \in Leaves(nodes) : nodes[n].edge_end = Len(string)

\* A phase before the last one is being processed and the tree has leaves
\* made by a split and by rule 2 on a node.
C19_Witness ==
    /\ pc = "link"
    /\ i + 1 < Len(string)
    /\ Cardinality(Leaves(nodes)) >= 3
    /\ \E n \in Leaves(nodes) : nodes[n].parent_node # 1

\* Following the parent references from node n reaches the root within fuel steps.
RECURSIVE ToRoot(_, _, _)
ToRoot(t, n, fuel) ==
    IF n = 1 THEN TRUE
    ELSE IF fuel = 0 \/ n = 0 THEN FALSE
    ELSE ToRoot(t, t[n].parent_node, fuel - 1)

\* C20: parent/child consistency: in every state of construction every
\* non-root node c reachable from the root is stored in its parent under the
\* first symbol of its own edge label (c.parent_node.edges[string[c.edge_start]]
\* is c), and the parent references from c lead to the root without a cycle.
C20_ParentChildConsistent ==
    \A c \in TreeNodes(nodes) \ {1} :
        /\ IndexOK(nodes[c].edge_start)
        /\ nodes[nodes[c].parent_node].edges[At(nodes[c].edge_start)] = c
        /\ ToRoot(nodes, c, Len(nodes))

\* A tree of three levels below the root, made by splits.
C20_Witness ==
    /\ Len(nodes) >= 7
    /\ \E c \in TreeNodes(nodes) \ {1} :
          /\ nodes[c].parent_node # 1
          /\ nodes[nodes[c].parent_node].parent_node # 1

====
